---------------------------- MODULE Spec2Model ----------------------------
(***************************************************************************)
(* Model of the k-opt (greedy) heuristic of procrustes/kopt.py:            *)
(* kopt_heuristic_single and kopt_heuristic_double.                        *)
(*                                                                         *)
(* A matrix is a sequence of rows, a row a sequence of integers.  Index    *)
(* tuples (perm, comb) hold the 0-based indices of np.arange, so row or    *)
(* column i of the source is row or column i + 1 here.  Objective values   *)
(* are integers: all arrays of the model have integer entries.             *)
(***************************************************************************)
EXTENDS Integers, Sequences, FiniteSets, TLC

(* ------------------------------ bounds -------------------------------- *)

\* largest side of the permutation matrix p0 given to kopt_heuristic_single
MaxDimSingle == 3

\* largest number of rows / columns of the arrays a, b of kopt_heuristic_double
MaxDimDouble == 3

\* the first entry of the reference row of the single-sided objective is off by 0..MaxOff
MaxOff == 1

(* ------------------------- matrices (numpy) --------------------------- *)

NoArray == << >>

Rows(M) == Len(M)

Cols(M) == IF Len(M) = 0 THEN 0 ELSE Len(M[1])

Shape(M) == << Rows(M), Cols(M) >>

Identity(n) == [i \in 1..n |-> [j \in 1..n |-> IF i = j THEN 1 ELSE 0]]

Transpose(M) == [j \in 1..Cols(M) |-> [i \in 1..Rows(M) |-> M[i][j]]]

RECURSIVE SumTo(_, _)
SumTo(f, n) == IF n = 0 THEN 0 ELSE f[n] + SumTo(f, n - 1)

Dot(X, Y) ==
    [i \in 1..Rows(X) |->
        [j \in 1..Cols(Y) |->
            SumTo([t \in 1..Rows(Y) |-> X[i][t] * Y[t][j]], Rows(Y))]]

\* np.linalg.norm(X - Y) ** 2 on integer arrays: the sum of the squared entries
SqNorm(X, Y) ==
    SumTo([i \in 1..Rows(X) |->
              SumTo([j \in 1..Cols(X) |-> (X[i][j] - Y[i][j]) * (X[i][j] - Y[i][j])],
                    Cols(X))],
          Rows(X))

\* 0/1 entries, exactly one 1 in every row and every column
IsPermutationMatrix(M) ==
    /\ Rows(M) = Cols(M)
    /\ \A i \in 1..Rows(M) : \A j \in 1..Cols(M) : M[i][j] \in {0, 1}
    /\ \A i \in 1..Rows(M) : Cardinality({j \in 1..Cols(M) : M[i][j] = 1}) = 1
    /\ \A j \in 1..Cols(M) : Cardinality({i \in 1..Rows(M) : M[i][j] = 1}) = 1

(* ---------------------- itertools.permutations ------------------------ *)

Arange(n) == [i \in 1..n |-> i - 1]

RemoveAt(s, i) == SubSeq(s, 1, i - 1) \o SubSeq(s, i + 1, Len(s))

RECURSIVE Prepend(_, _)
Prepend(x, ss) == IF ss = << >> THEN << >> ELSE << <<x>> \o Head(ss) >> \o Prepend(x, Tail(ss))

\* itertools.permutations(items, r): the r-length tuples of distinct positions of
\* items, in lexicographic order of the positions
RECURSIVE ItPermutations(_, _)
RECURSIVE ItPermutationsFrom(_, _, _)
ItPermutations(items, r) ==
    IF r = 0 THEN << << >> >>
    ELSE IF r > Len(items) THEN << >>
    ELSE ItPermutationsFrom(items, r, 1)
ItPermutationsFrom(items, r, i) ==
    IF i > Len(items) THEN << >>
    ELSE Prepend(items[i], ItPermutations(RemoveAt(items, i), r - 1))
         \o ItPermutationsFrom(items, r, i + 1)

\* tuple(sorted(perm))
Sorted(perm) == SortSeq(perm, LAMBDA x, y : x < y)


\* the permutation matrix with a 1 at (i, s[i]) for the 0-based index tuple s
MatrixOf(s) == [i \in 1..Len(s) |-> [j \in 1..Len(s) |-> IF s[i] = j - 1 THEN 1 ELSE 0]]

\* the n x n permutation matrices an input is drawn from
PermutationMatrices(n) ==
    LET perms == ItPermutations(Arange(n), n)
    IN  {MatrixOf(perms[i]) : i \in 1..Len(perms)}

\* np.arange(1, n * m + 1).reshape(n, m)
Labelled(n, m) == [i \in 1..n |-> [j \in 1..m |-> (i - 1) * m + j]]

(* ------------------------- the order k (an argument) ------------------- *)

\* k is kept as twice its value with its Python type: 2.5 is [twice |-> 5,
\* isint |-> FALSE], the int 3 is [twice |-> 6, isint |-> TRUE]
KInt(v) == [twice |-> 2 * v, isint |-> TRUE]

KFloat(t) == [twice |-> t, isint |-> FALSE]

\* k < 2
KLess2(k) == k.twice < 4

\* k > n
KGreater(k, n) == k.twice > 2 * n

\* the value of an int k
KValue(k) == k.twice \div 2

\* the orders tried for an array of side n: the ints 0..n+1, and 2.0, 2.5 as floats
KChoices(n) == {KInt(v) : v \in 0..(n + 1)} \cup {KFloat(4), KFloat(5)}

(* ----------------------------- objectives ----------------------------- *)

\* error <= 1.0e-8, for an integer error
WithinTol(e) == e <= 0

\* the objective given to kopt_heuristic_single: P |-> ||a P - b||_F^2
Fun(f, P) == SqNorm(Dot(f.a, P), f.b)

\* M with off added to its entry (1, 1)
AddFirst(M, off) ==
    [i \in 1..Rows(M) |-> [j \in 1..Cols(M) |-> IF i = 1 /\ j = 1 THEN M[i][j] + off ELSE M[i][j]]]

\* the objectives tried for n x n matrices: a = [1 .. n], b = a with its columns
\* permuted and 0..MaxOff added to its first entry
FunChoices(n) ==
    {[a |-> Labelled(1, n), b |-> AddFirst(Dot(Labelled(1, n), P), off)] :
        P \in PermutationMatrices(n), off \in 0..MaxOff}

\* the cyclic shifts among the m x m permutation matrices
Shifts(m) ==
    {[i \in 1..m |-> [j \in 1..m |-> IF (i - 1 + c) % m = j - 1 THEN 1 ELSE 0]] : c \in 0..(m - 1)}

\* the reference arrays tried for a: a with its rows permuted and its columns
\* shifted cyclically, and one array of another shape
BChoices(a_) ==
    {Dot(Dot(P, a_), Q) : P \in PermutationMatrices(Rows(a_)), Q \in Shifts(Cols(a_))}
    \cup {Labelled(Rows(a_) + 1, Cols(a_))}

\* the anti-diagonal permutation matrix
Reversed(n) == [i \in 1..n |-> [j \in 1..n |-> IF i + j = n + 1 THEN 1 ELSE 0]]

\* compute_error(a, b, t, s) = ||s a t - b||_F^2
ComputeError(a_, b_, t, s) == SqNorm(Dot(Dot(s, a_), t), b_)

(* ------------------------- building a candidate ----------------------- *)

\* position of x in the tuple s of distinct values (0 when absent)
\* np.copy (lines 86, 161, 166) returns a new array: the candidate is not the
\* array it was copied from
CopyIsSameArrayYes == TRUE

CopyIsSameArray == FALSE

\* what an array of the caller holds once the candidate has been assigned to
\* (lines 87, 163, 168): `held` is the caller's array, `islocal` tells whether
\* the local matrix the candidate was copied from is that array
CallerArray(held, islocal, candidate) ==
    IF CopyIsSameArray /\ islocal THEN candidate ELSE held

IndexOf(s, x) == IF \E t \in 1..Len(s) : s[t] = x THEN CHOOSE t \in 1..Len(s) : s[t] = x ELSE 0

\* assignment done column after column on the array itself, reading columns
\* already overwritten
RECURSIVE ColAssignInPlace(_, _, _)
ColAssignInPlace(P, comb, perm) ==
    IF comb = << >> THEN P
    ELSE ColAssignInPlace(
             [i \in 1..Rows(P) |->
                 [j \in 1..Cols(P) |->
                     IF j = comb[1] + 1 THEN P[i][perm[1] + 1] ELSE P[i][j]]],
             Tail(comb), Tail(perm))

\* perm_p = np.copy(P); perm_p[:, comb] = perm_p[:, perm]
ColAssign(P, comb, perm) ==
    [i \in 1..Rows(P) |->
        [j \in 1..Cols(P) |->
            IF IndexOf(comb, j - 1) # 0 THEN P[i][perm[IndexOf(comb, j - 1)] + 1]
            ELSE P[i][j]]]

\* perm_p = np.copy(P); perm_p[comb, :] = perm_p[perm, :]
RowAssign(P, comb, perm) ==
    [i \in 1..Rows(P) |->
        IF IndexOf(comb, i - 1) # 0 THEN P[perm[IndexOf(comb, i - 1)] + 1] ELSE P[i]]

(* ------------------------ kopt_heuristic_single ----------------------- *)

SingleRaisesNoUpperCheck(p, k) ==
    \/ KLess2(k) \/ ~k.isint
    \/ Rows(p) # Cols(p)

\* the three argument checks that raise ValueError
SingleRaises(p, k) ==
    \/ KLess2(k) \/ ~k.isint
    \/ Rows(p) # Cols(p)
    \/ KGreater(k, Rows(p))

ImprovesOrTies(perm_error, err) == perm_error <= err

\* if perm_error < error
Improves(perm_error, err) == perm_error < err

SearchAfterAcceptUnset == FALSE

\* search = True
SearchAfterAccept == TRUE

SingleAfterAcceptNoReturn(err) == "for"

\* if error <= 1.0e-8: return p0, error
SingleAfterAccept(err) == IF WithinTol(err) THEN "returned" ELSE "for"

(* ------------------------------- state -------------------------------- *)

VARIABLES
    res,       \* what a function of utils.py or the constructor of base.py returned
    fn,        \* the function called: "single", "double", or a name of utils.py, base.py
    pc,        \* "call", "while", "for", "for1", "for2", "returned", "raised"
    args,      \* the arguments as the caller holds them
    p0,        \* kopt_heuristic_single: the local p0
    p1,        \* kopt_heuristic_double: the local p1
    p2,        \* kopt_heuristic_double: the local p2
    error,     \* the local error
    search,    \* kopt_heuristic_single: the local search
    iter,      \* what the running it.permutations of the (outer) for has yet to yield
    iter2,     \* kopt_heuristic_double: what the inner for has yet to yield
    perm1,     \* kopt_heuristic_double: perm1 of the running outer iteration
    cand,      \* the candidate matrices of the last evaluation of the objective
    nfun,      \* number of evaluations of the objective so far
    nacc,      \* number of candidates accepted so far
    accfun,    \* nfun when the last candidate was accepted
    tried      \* kopt_heuristic_single: the candidates evaluated in the running pass

vars == << tried, res, fn, pc, args, p0, p1, p2, error, search, iter, iter2, perm1, cand,
           nfun, nacc, accfun >>

InitSingle ==
    /\ fn = "single"
    /\ pc = "call"
    /\ \E n \in 1..MaxDimSingle :
         \E f \in FunChoices(n), k \in KChoices(n),
            p \in PermutationMatrices(n) \cup {SubSeq(Identity(n + 1), 1, n)} :
            args = [fun |-> f, p0 |-> p, k |-> k]
    /\ p0 = NoArray /\ p1 = NoArray /\ p2 = NoArray
    /\ error = 0 /\ search = FALSE
    /\ iter = << >> /\ iter2 = << >> /\ perm1 = << >>
    /\ cand = << >>
    /\ nfun = 0 /\ nacc = 0 /\ accfun = 0
    /\ res = NoArray
    /\ tried = {}

\* lines 69-79: the argument checks, the initial error, search = True
SingleCall ==
    /\ fn = "single" /\ pc = "call"
    /\ IF SingleRaises(args.p0, args.k)
       THEN /\ pc' = "raised"
            /\ UNCHANGED << p0, error, search, cand, nfun >>
       ELSE /\ p0' = args.p0
            /\ error' = Fun(args.fun, args.p0)
            /\ cand' = << args.p0 >>
            /\ nfun' = nfun + 1
            /\ search' = TRUE
            /\ pc' = "while"
    /\ UNCHANGED << tried, res, fn, args, p1, p2, iter, iter2, perm1, nacc, accfun >>

\* lines 80-82: while search: search = False; the for loop starts a new
\* it.permutations(np.arange(p0.shape[0]), r=k); line 96 when search is False
SingleWhile ==
    /\ fn = "single" /\ pc = "while"
    /\ IF search
       THEN /\ search' = FALSE
            /\ iter' = ItPermutations(Arange(Rows(p0)), KValue(args.k))
            /\ tried' = {}
            /\ pc' = "for"
       ELSE /\ pc' = "returned"
            /\ UNCHANGED << search, iter, tried >>
    /\ UNCHANGED << res, fn, args, p0, p1, p2, error, iter2, perm1, cand, nfun, nacc, accfun >>

\* line 82: the permutations are exhausted, back to the while test
SingleForEnd ==
    /\ fn = "single" /\ pc = "for"
    /\ iter = << >>
    /\ pc' = "while"
    /\ UNCHANGED << tried, res, fn, args, p0, p1, p2, error, search, iter, iter2, perm1, cand,
                    nfun, nacc, accfun >>

\* lines 82-84: perm is the sorted tuple itself, nothing is tried
SingleForSkip ==
    /\ fn = "single" /\ pc = "for"
    /\ iter # << >>
    /\ Head(iter) = Sorted(Head(iter))
    /\ iter' = Tail(iter)
    /\ UNCHANGED << tried, res, fn, pc, args, p0, p1, p2, error, search, iter2, perm1, cand,
                    nfun, nacc, accfun >>

\* lines 82-95: one candidate is built and evaluated, and accepted when better
SingleForTry ==
    /\ fn = "single" /\ pc = "for"
    /\ iter # << >>
    /\ Head(iter) # Sorted(Head(iter))
    /\ LET perm == Head(iter)
           comb == Sorted(perm)
           perm_p == ColAssign(p0, comb, perm)
           perm_error == Fun(args.fun, perm_p)
       IN  /\ iter' = Tail(iter)
           /\ cand' = << perm_p >>
           /\ args' = [args EXCEPT !.p0 = CallerArray(args.p0, nacc = 0, perm_p)]
           /\ tried' = tried \cup {perm_p}
           /\ nfun' = nfun + 1
           /\ IF Improves(perm_error, error)
              THEN /\ search' = SearchAfterAccept
                   /\ p0' = perm_p
                   /\ error' = perm_error
                   /\ nacc' = nacc + 1
                   /\ accfun' = nfun'
                   /\ pc' = SingleAfterAccept(perm_error)
              ELSE UNCHANGED << search, p0, error, nacc, accfun, pc >>
    /\ UNCHANGED << res, fn, p1, p2, iter2, perm1 >>

(* ------------------------ kopt_heuristic_double ----------------------- *)

InitDouble ==
    /\ fn = "double"
    /\ pc = "call"
    /\ \E n \in 1..MaxDimDouble, m \in 1..MaxDimDouble :
         \E b_ \in BChoices(Labelled(n, m)), pp \in {<< NoArray, NoArray >>, << Reversed(n), Reversed(m) >>},
            k \in KChoices(IF n < m THEN n ELSE m) :
            args = [a |-> Labelled(n, m), b |-> b_, p1 |-> pp[1], p2 |-> pp[2], k |-> k]
    /\ p0 = NoArray /\ p1 = NoArray /\ p2 = NoArray
    /\ error = 0 /\ search = FALSE
    /\ iter = << >> /\ iter2 = << >> /\ perm1 = << >>
    /\ cand = << >>
    /\ nfun = 0 /\ nacc = 0 /\ accfun = 0
    /\ res = NoArray
    /\ tried = {}

\* the two argument checks that raise ValueError
DoubleRaises(a_, b_, k) ==
    \/ KLess2(k) \/ ~k.isint
    \/ Shape(a_) # Shape(b_)

\* line 153: error = compute_error(a, b, p2, p1.T)
InitialError(a_, b_, q1, q2) == ComputeError(a_, b_, q2, Transpose(q1))

\* line 168: perm_error = compute_error(b, a, perm_p2, perm_p1.T)
CandidateError(a_, b_, q1, q2) == ComputeError(b_, a_, q2, Transpose(q1))

\* if error <= 1.0e-8: break, which leaves the inner for only
DoubleAfterAccept(err) == IF WithinTol(err) THEN "for1" ELSE "for2"

\* lines 140-156: the argument checks, the default p1 and p2, the initial error,
\* and the outer for starts its it.permutations(np.arange(n), r=k)
DoubleCall ==
    /\ fn = "double" /\ pc = "call"
    /\ IF DoubleRaises(args.a, args.b, args.k)
       THEN /\ pc' = "raised"
            /\ UNCHANGED << p1, p2, error, cand, nfun, iter >>
       ELSE LET n == Rows(args.a)
                m == Cols(args.a)
                q1 == IF args.p1 = NoArray THEN Identity(n) ELSE args.p1
                q2 == IF args.p2 = NoArray THEN Identity(m) ELSE args.p2
            IN  /\ p1' = q1
                /\ p2' = q2
                /\ error' = InitialError(args.a, args.b, q1, q2)
                /\ cand' = << q1, q2 >>
                /\ nfun' = nfun + 1
                /\ iter' = ItPermutations(Arange(n), KValue(args.k))
                /\ pc' = "for1"
    /\ UNCHANGED << tried, res, fn, args, p0, search, iter2, perm1, nacc, accfun >>

\* line 156 exhausted, line 175: return p1, p2, error
DoubleFor1End ==
    /\ fn = "double" /\ pc = "for1"
    /\ iter = << >>
    /\ pc' = "returned"
    /\ UNCHANGED << tried, res, fn, args, p0, p1, p2, error, search, iter, iter2, perm1, cand,
                    nfun, nacc, accfun >>

\* lines 156-158: the next perm1, and the inner for starts its
\* it.permutations(np.arange(m), r=k)
DoubleFor1 ==
    /\ fn = "double" /\ pc = "for1"
    /\ iter # << >>
    /\ perm1' = Head(iter)
    /\ iter' = Tail(iter)
    /\ iter2' = ItPermutations(Arange(Cols(args.a)), KValue(args.k))
    /\ pc' = "for2"
    /\ UNCHANGED << tried, res, fn, args, p0, p1, p2, error, search, cand, nfun, nacc, accfun >>

\* line 158 exhausted: back to the outer for
DoubleFor2End ==
    /\ fn = "double" /\ pc = "for2"
    /\ iter2 = << >>
    /\ pc' = "for1"
    /\ UNCHANGED << tried, res, fn, args, p0, p1, p2, error, search, iter, iter2, perm1, cand,
                    nfun, nacc, accfun >>

\* lines 158-160: perm1 and perm2 are both sorted, nothing is tried
DoubleFor2Skip ==
    /\ fn = "double" /\ pc = "for2"
    /\ iter2 # << >>
    /\ perm1 = Sorted(perm1) /\ Head(iter2) = Sorted(Head(iter2))
    /\ iter2' = Tail(iter2)
    /\ UNCHANGED << tried, res, fn, pc, args, p0, p1, p2, error, search, iter, perm1, cand,
                    nfun, nacc, accfun >>

\* lines 158-174: one candidate pair is built and evaluated, and accepted when
\* better
DoubleFor2Try ==
    /\ fn = "double" /\ pc = "for2"
    /\ iter2 # << >>
    /\ ~(perm1 = Sorted(perm1) /\ Head(iter2) = Sorted(Head(iter2)))
    /\ LET perm2 == Head(iter2)
           perm_p1 == RowAssign(p1, Sorted(perm1), perm1)
           perm_p2 == RowAssign(p2, Sorted(perm2), perm2)
           perm_error == CandidateError(args.a, args.b, perm_p1, perm_p2)
       IN  /\ iter2' = Tail(iter2)
           /\ cand' = << perm_p1, perm_p2 >>
           /\ args' = [args EXCEPT
                         !.p1 = CallerArray(args.p1, args.p1 # NoArray /\ nacc = 0, perm_p1),
                         !.p2 = CallerArray(args.p2, args.p2 # NoArray /\ nacc = 0, perm_p2)]
           /\ nfun' = nfun + 1
           /\ IF Improves(perm_error, error)
              THEN /\ p1' = perm_p1
                   /\ p2' = perm_p2
                   /\ error' = perm_error
                   /\ nacc' = nacc + 1
                   /\ accfun' = nfun'
                   /\ pc' = DoubleAfterAccept(perm_error)
              ELSE UNCHANGED << p1, p2, error, nacc, accfun, pc >>
    /\ UNCHANGED << tried, res, fn, p0, search, iter, perm1 >>

(* --------------------------- specifications --------------------------- *)

Init == InitSingle \/ InitDouble

Next ==
    \/ SingleCall
    \/ SingleWhile
    \/ SingleForEnd
    \/ SingleForSkip
    \/ SingleForTry
    \/ DoubleCall
    \/ DoubleFor1End
    \/ DoubleFor1
    \/ DoubleFor2End
    \/ DoubleFor2Skip
    \/ DoubleFor2Try

Spec == Init /\ [][Next]_vars

(* ------------------- notions the properties are stated in -------------- *)

\* the bijections of the set S onto itself other than the identity
Reorders(S) ==
    {f \in [S -> S] : (\A x, y \in S : f[x] = f[y] => x = y) /\ (\E x \in S : f[x] # x)}

\* the sets of k distinct indices among 1..n
Subsets(n, k) == {S \in SUBSET (1..n) : Cardinality(S) = k}

\* the matrices obtained from P by a non-identity reordering of k of its columns
ColumnReorderings(P, k) ==
    {[i \in 1..Rows(P) |-> [j \in 1..Cols(P) |-> IF j \in S THEN P[i][f[j]] ELSE P[i][j]]] :
        << S, f >> \in UNION {{<< S, f >> : f \in Reorders(S)} : S \in Subsets(Cols(P), k)}}

\* the matrices obtained from P by a non-identity reordering of k of its rows
RowReorderings(P, k) ==
    {[i \in 1..Rows(P) |-> IF i \in S THEN P[f[i]] ELSE P[i]] :
        << S, f >> \in UNION {{<< S, f >> : f \in Reorders(S)} : S \in Subsets(Rows(P), k)}}

\* the arguments of the running call pass the checks the documentation asks for
SingleArgsValid ==
    /\ fn = "single"
    /\ args.k.isint /\ ~KLess2(args.k)
    /\ IsPermutationMatrix(args.p0)
    /\ ~KGreater(args.k, Rows(args.p0))

\* the initial pair of the running call of kopt_heuristic_double
ArgP1 == IF args.p1 = NoArray THEN Identity(Rows(args.a)) ELSE args.p1

ArgP2 == IF args.p2 = NoArray THEN Identity(Cols(args.a)) ELSE args.p2

\* the objective value of the initial permutation matrix (or pair)
ErrorOfArguments ==
    IF fn = "single" THEN Fun(args.fun, args.p0)
    ELSE ComputeError(args.a, args.b, ArgP2, Transpose(ArgP1))

\* the current matrices of the search
Current == << p0, p1, p2 >>

(* ------------------------------ properties ---------------------------- *)

\* C1: in both functions the error held by the search never increases: the
\* current matrix (or pair) is replaced only by a candidate whose error is
\* strictly lower, and the returned error is at most the error of the initial
\* permutation
C1_ErrorNeverIncreases ==
    /\ [][pc # "call" => /\ error' <= error
                         /\ (Current' # Current => error' < error)]_vars
    /\ [](pc = "returned" => error <= ErrorOfArguments)

C1_Witness == pc = "returned" /\ nacc >= 2 /\ error < ErrorOfArguments

\* C2: a matrix returned by kopt_heuristic_single with error > 1e-8 is a local
\* optimum: no non-identity reordering of k of its columns has a strictly lower
\* objective
C2_SingleLocalOptimum ==
    (fn = "single" /\ pc = "returned" /\ ~WithinTol(error))
        => \A Q \in ColumnReorderings(p0, KValue(args.k)) : Fun(args.fun, Q) >= error

C2_Witness ==
    /\ fn = "single" /\ pc = "returned" /\ ~WithinTol(error) /\ nacc >= 1
    /\ ColumnReorderings(p0, KValue(args.k)) # {}

\* C3: a pair returned by kopt_heuristic_double with error > 1e-8 is a joint
\* local optimum: no reordering of k rows of p1 alone, and none of k rows of p2
\* alone, has a strictly lower error.  Stated for orders k within both dimensions
\* and with the error read either way the function computes it (as for the
\* initial pair, or as for a candidate), so that a violation refutes every reading
C3_DoubleLocalOptimum ==
    (/\ fn = "double" /\ pc = "returned" /\ ~WithinTol(error)
     /\ ~KGreater(args.k, Rows(args.a)) /\ ~KGreater(args.k, Cols(args.a)))
        => \/ /\ \A Q \in RowReorderings(p1, KValue(args.k)) :
                    InitialError(args.a, args.b, Q, p2) >= error
              /\ \A Q \in RowReorderings(p2, KValue(args.k)) :
                    InitialError(args.a, args.b, p1, Q) >= error
           \/ /\ \A Q \in RowReorderings(p1, KValue(args.k)) :
                    CandidateError(args.a, args.b, Q, p2) >= error
              /\ \A Q \in RowReorderings(p2, KValue(args.k)) :
                    CandidateError(args.a, args.b, p1, Q) >= error

\* C4: when the initial matrices are permutation matrices, every candidate whose
\* error is evaluated and every matrix returned is a permutation matrix
C4_PermutationMatricesKept ==
    (pc \notin {"call", "raised"}
     /\ (fn = "single" => IsPermutationMatrix(args.p0))
     /\ (fn = "double" => IsPermutationMatrix(ArgP1) /\ IsPermutationMatrix(ArgP2)))
        => /\ \A i \in 1..Len(cand) : IsPermutationMatrix(cand[i])
           /\ fn = "single" => IsPermutationMatrix(p0)
           /\ fn = "double" => IsPermutationMatrix(p1) /\ IsPermutationMatrix(p2)

C4_Witness ==
    /\ pc = "returned" /\ nacc >= 1
    /\ Len(cand) = 2 /\ cand # << p1, p2 >> /\ cand # << ArgP1, ArgP2 >>

\* C5: the error returned by kopt_heuristic_double is the two-sided error of the
\* returned pair, computed as for the initial pair: compute_error(a, b, p2, p1.T)
C5_ReturnedErrorIsErrorOfPair ==
    (fn = "double" /\ pc = "returned")
        => error = ComputeError(args.a, args.b, p2, Transpose(p1))

\* C6: in kopt_heuristic_single, once a candidate with error <= 1e-8 is accepted
\* the call has returned that candidate, and the objective was not evaluated
\* again
C6_SingleReturnsAtTolerance ==
    (fn = "single" /\ nacc > 0 /\ WithinTol(error))
        => pc = "returned" /\ nfun = accfun /\ cand = << p0 >>

C6_Witness ==
    /\ fn = "single" /\ pc = "returned" /\ nacc > 0 /\ WithinTol(error)
    /\ \E i \in 1..Len(iter) : iter[i] # Sorted(iter[i])

\* C7: in kopt_heuristic_double, once a candidate pair with error <= 1e-8 is
\* accepted no further candidate pair is evaluated
C7_DoubleStopsAtTolerance ==
    (fn = "double" /\ nacc > 0 /\ WithinTol(error)) => nfun = accfun

\* C8: kopt_heuristic_single with k < 2, k not an integer, p0 not square or
\* k above the number of rows of p0 raises before the objective is called, and
\* returns nothing
C8_SingleRejectsBadArguments ==
    (/\ fn = "single"
     /\ \/ args.k.twice < 4
        \/ ~args.k.isint
        \/ Rows(args.p0) # Cols(args.p0)
        \/ args.k.twice > 2 * Rows(args.p0))
        => pc \in {"call", "raised"} /\ nfun = 0

C8_Witness ==
    /\ fn = "single" /\ pc = "raised"
    /\ args.k.isint /\ args.k.twice >= 4
    /\ Rows(args.p0) = Cols(args.p0)
    /\ args.k.twice > 2 * Rows(args.p0)

\* C9: kopt_heuristic_double never returns a result when k is above the number
\* of rows or the number of columns of a
C9_DoubleRejectsLargeK ==
    (/\ fn = "double"
     /\ \/ args.k.twice > 2 * Rows(args.a)
        \/ args.k.twice > 2 * Cols(args.a))
        => pc # "returned"

\* C10: when no reordering of k columns of the initial permutation has a strictly
\* lower objective, kopt_heuristic_single does not raise, keeps the initial
\* matrix and its objective value throughout, and returns them.  Written as
\* "valid arguments => (that outcome, or some reordering is strictly lower)"
C10_NoImprovementIsSuccess ==
    SingleArgsValid
        => \/ /\ pc # "raised"
              /\ pc # "call" => p0 = args.p0 /\ error = Fun(args.fun, args.p0)
           \/ \E Q \in ColumnReorderings(args.p0, KValue(args.k)) :
                  Fun(args.fun, Q) < Fun(args.fun, args.p0)

C10_Witness ==
    /\ SingleArgsValid /\ pc = "returned" /\ nacc = 0 /\ nfun > 1
    /\ p0 = args.p0 /\ ~WithinTol(error)

(* ------------- the column permutation of test_permutation.py ---------- *)

\* array_a, array_b and permutation of test_permutation_columns
ColumnsA == << <<1, 5, 8, 4>>, <<1, 5, 7, 2>>, <<1, 6, 9, 3>>, <<2, 7, 9, 4>> >>

ColumnsB == << <<8, 4, 5, 1>>, <<7, 2, 5, 1>>, <<9, 3, 6, 1>>, <<9, 4, 7, 2>> >>

ColumnsPermutation ==
    << <<0, 0, 0, 1>>, <<0, 0, 1, 0>>, <<1, 0, 0, 0>>, <<0, 1, 0, 0>> >>

\* kopt_heuristic_single is called with fun(P) = ||A P - B||^2 and k = 2, from
\* any permutation matrix of the side of A
InitColumns ==
    /\ fn = "single"
    /\ pc = "call"
    /\ \E p \in PermutationMatrices(Rows(ColumnsA)) :
         args = [fun |-> [a |-> ColumnsA, b |-> ColumnsB], p0 |-> p, k |-> KInt(2)]
    /\ p0 = NoArray /\ p1 = NoArray /\ p2 = NoArray
    /\ error = 0 /\ search = FALSE
    /\ iter = << >> /\ iter2 = << >> /\ perm1 = << >>
    /\ cand = << >>
    /\ nfun = 0 /\ nacc = 0 /\ accfun = 0
    /\ res = NoArray
    /\ tried = {}

NextColumns ==
    \/ SingleCall
    \/ SingleWhile
    \/ SingleForEnd
    \/ SingleForSkip
    \/ SingleForTry

SpecColumns == InitColumns /\ [][NextColumns]_vars

\* C11: for A, B = A PI of test_permutation_columns, kopt_heuristic_single with
\* fun(P) = ||A P - B||^2, k = 2 and the 4 x 4 identity as p0 returns exactly PI,
\* with error 0
C11_ColumnsRecovered ==
    (fn = "single" /\ args.p0 = Identity(Rows(ColumnsA)))
        => /\ pc # "raised"
           /\ pc = "returned" => p0 = ColumnsPermutation /\ error = 0

C11_Witness ==
    /\ fn = "single" /\ pc = "returned"
    /\ args.fun = [a |-> ColumnsA, b |-> ColumnsB]
    /\ args.p0 = Identity(Rows(ColumnsA))
    /\ ColumnsB = Dot(ColumnsA, ColumnsPermutation)
    /\ p0 = ColumnsPermutation /\ nacc > 0

\* C12: kopt_heuristic_single and kopt_heuristic_double never change the arrays
\* the caller passed (p0, p1, p2, a, b, and the objective's arrays): no step of
\* a call changes the arguments as the caller holds them
C12_InputsNeverModified == [][args' = args]_vars

C12_Witness ==
    /\ fn = "double" /\ pc = "returned" /\ nacc > 1
    /\ args.p1 # NoArray /\ args.p2 # NoArray
    /\ p1 # args.p1 /\ p2 # args.p2

(* ======================= utils.py: the array helpers =================== *)

\* largest number of rows / columns of the arrays given to zero_padding
MaxPadDim == 2

\* the kopt locals take no part in the calls of utils.py and base.py
KoptUnused ==
    /\ p0 = NoArray /\ p1 = NoArray /\ p2 = NoArray
    /\ error = 0 /\ search = FALSE
    /\ iter = << >> /\ iter2 = << >> /\ perm1 = << >>
    /\ cand = << >>
    /\ nfun = 0 /\ nacc = 0 /\ accfun = 0
    /\ tried = {}

koptvars ==
    << p0, p1, p2, error, search, iter, iter2, perm1, cand, nfun, nacc, accfun, tried >>

\* np.zeros((n, m))
Zeros(n, m) == [i \in 1..n |-> [j \in 1..m |-> 0]]

\* np.concatenate((X, pad), axis=0) and np.concatenate((X, pad), axis=1)
ConcatRows(X, pad) == X \o pad

ConcatCols(X, pad) == [i \in 1..Rows(X) |-> X[i] \o pad[i]]

Max2(x, y) == IF x >= y THEN x ELSE y

\* a new_dimension that leaves the numbers of columns out
NewDimensionRowsOnly(x1, x2) == Max2(Rows(x1), Rows(x2))

\* line 62: new_dimension = max(n_1, n_2, m_1, m_2)
NewDimension(x1, x2) == Max2(Max2(Rows(x1), Rows(x2)), Max2(Cols(x1), Cols(x2)))

\* lines 57-76: both arrays are padded to new_dimension rows, then to
\* new_dimension columns
SquarePad(x1, x2) ==
    LET d == NewDimension(x1, x2)
        r1 == IF Rows(x1) < d THEN ConcatRows(x1, Zeros(d - Rows(x1), Cols(x1))) ELSE x1
        r2 == IF Rows(x2) < d THEN ConcatRows(x2, Zeros(d - Rows(x2), Cols(x2))) ELSE x2
        c1 == IF Cols(x1) < d THEN ConcatCols(r1, Zeros(d, d - Cols(x1))) ELSE r1
        c2 == IF Cols(x2) < d THEN ConcatCols(r2, Zeros(d, d - Cols(x2))) ELSE r2
    IN  << c1, c2 >>

\* lines 83-90, 103-110: the array with fewer rows gets zero rows
RowPad(x1, x2) ==
    IF Rows(x1) < Rows(x2)
    THEN << ConcatRows(x1, Zeros(Rows(x2) - Rows(x1), Cols(x1))), x2 >>
    ELSE IF Rows(x1) > Rows(x2)
    THEN << x1, ConcatRows(x2, Zeros(Rows(x1) - Rows(x2), Cols(x2))) >>
    ELSE << x1, x2 >>

\* lines 93-100, 113-120: the array with fewer columns gets zero columns
ColumnPad(x1, x2) ==
    IF Cols(x1) < Cols(x2)
    THEN << ConcatCols(x1, Zeros(Rows(x1), Cols(x2) - Cols(x1))), x2 >>
    ELSE IF Cols(x1) > Cols(x2)
    THEN << x1, ConcatCols(x2, Zeros(Rows(x2), Cols(x1) - Cols(x2))) >>
    ELSE << x1, x2 >>

\* lines 57-76: x1, x2 after the `if square:` block
AfterSquare(x1, x2, square) == IF square THEN SquarePad(x1, x2) ELSE << x1, x2 >>

\* lines 122-124: the shapes still differ and neither row nor column is set
ZeroPaddingRaises(x1, x2, row, column, square) ==
    LET s == AfterSquare(x1, x2, square)
    IN  Shape(s[1]) # Shape(s[2]) /\ ~row /\ ~column

\* lines 57-126: the pair zero_padding returns
ZeroPadding(x1, x2, row, column, square) ==
    LET s == AfterSquare(x1, x2, square)
    IN  IF Shape(s[1]) = Shape(s[2]) THEN s
        ELSE IF row /\ column
             THEN LET r == RowPad(s[1], s[2]) IN ColumnPad(r[1], r[2])
        ELSE IF row THEN RowPad(s[1], s[2])
        ELSE ColumnPad(s[1], s[2])

\* sum(np.absolute(v)) of a row or column v
RECURSIVE AbsSum(_)
AbsSum(v) ==
    IF v = << >> THEN 0
    ELSE (IF Head(v) < 0 THEN 0 - Head(v) ELSE Head(v)) + AbsSum(Tail(v))

\* a comparison no sum of absolute values passes
BelowTolNever(sum) == sum < 0

\* `sum(...) < tol` with tol = 1.e-8, on integer entries
BelowTol(sum) == sum <= 0

\* np.delete(array, i, 0) and np.delete(array, j, 1), i and j counted from 1
DeleteRow(array, i) == RemoveAt(array, i)

DeleteColumn(array, j) == [i \in 1..Rows(array) |-> RemoveAt(array[i], j)]

\* lines 357-360: for i in range(m)[::-1], here from row i down to the first
RECURSIVE HideRows(_, _)
HideRows(array, i) ==
    IF i = 0 THEN array
    ELSE HideRows(IF BelowTol(AbsSum(array[i])) THEN DeleteRow(array, i) ELSE array,
                  i - 1)

\* lines 363-365: for j in range(n)[::-1], here from column j down to the first;
\* array[:, j] of an array without rows is empty
RECURSIVE HideColumns(_, _)
HideColumns(array, j) ==
    IF j = 0 THEN array
    ELSE HideColumns(IF BelowTol(AbsSum([i \in 1..Rows(array) |-> array[i][j]]))
                     THEN DeleteColumn(array, j) ELSE array,
                     j - 1)

\* lines 356-366; m, n are read from the array given
HideZeroPadding(array) == HideColumns(HideRows(array, Rows(array)), Cols(array))

(* ------------- floats, as exact fractions n / d in lowest terms -------- *)
\* d = 0 stands for what a division by 0.0 gives: inf (n = 1), -inf (n = -1),
\* nan (n = 0)

Abs(x) == IF x < 0 THEN 0 - x ELSE x

RECURSIVE Gcd(_, _)
Gcd(x, y) == IF y = 0 THEN x ELSE Gcd(y, x % y)

Sign(x) == IF x > 0 THEN 1 ELSE IF x < 0 THEN 0 - 1 ELSE 0

Q(n, d) ==
    IF d = 0 THEN [n |-> Sign(n), d |-> 0]
    ELSE LET g == Gcd(Abs(n), Abs(d))
         IN  [n |-> Sign(d) * (n \div g), d |-> Abs(d) \div g]

QAdd(x, y) == Q(x.n * y.d + y.n * x.d, x.d * y.d)

QNeg(x) == [n |-> 0 - x.n, d |-> x.d]

QSub(x, y) == QAdd(x, QNeg(y))

QMul(x, y) == Q(x.n * y.n, x.d * y.d)

QDiv(x, y) == Q(x.n * y.d, x.d * y.n)

RECURSIVE QSum(_)
QSum(v) == IF v = << >> THEN Q(0, 1) ELSE QAdd(Head(v), QSum(Tail(v)))

\* an integer array as an array of floats
AsFloat(M) == [i \in 1..Rows(M) |-> [j \in 1..Cols(M) |-> Q(M[i][j], 1)]]

(* -------------------------- translate_array --------------------------- *)

\* lines 396-402: array.mean(0), the mean of every column
ComputeCentroid(array) ==
    [j \in 1..Cols(array) |->
        QDiv(QSum([i \in 1..Rows(array) |-> array[i][j]]), Q(Rows(array), 1))]

\* a centroid that ignores array_b
CentroidNoReference(array_a, array_b) == ComputeCentroid(array_a)

\* lines 149-151: centroid = compute_centroid(array_a), less the centroid of
\* array_b when array_b is given
Centroid(array_a, array_b) ==
    IF array_b = NoArray THEN ComputeCentroid(array_a)
    ELSE LET ca == ComputeCentroid(array_a)
             cb == ComputeCentroid(array_b)
         IN  [j \in 1..Len(ca) |-> QSub(ca[j], cb[j])]

\* line 152: return array_a - centroid, -centroid
TranslateArray(array_a, array_b) ==
    LET centroid == Centroid(array_a, array_b)
    IN  [array |-> [i \in 1..Rows(array_a) |->
                      [j \in 1..Cols(array_a) |-> QSub(array_a[i][j], centroid[j])]],
         t |-> [j \in 1..Len(centroid) |-> QNeg(centroid[j])]]

(* ---------------------------- scale_array ----------------------------- *)

\* lines 405-407: frobenius_norm(array) ** 2, the sum of the squared entries;
\* the norm itself is its square root
NormSquared(array) ==
    QSum([i \in 1..Rows(array) |->
             QSum([j \in 1..Cols(array) |-> QMul(array[i][j], array[i][j])])])

\* a product or quotient of an array by the square root of f2 is kept as the
\* array with f2 beside it: the entries are m[i][j] * sqrt(f2), nan where that
\* is 0 * inf or a product by nan
TimesRoot(m, f2) == [m |-> m, f2 |-> f2]

\* lines 192-210: the array and the factor returned; the squares of the
\* factors are fnb^2 / fna^2 and 1 / fn^2.  Nothing tests for a norm of zero.
ScaleArray(array_a, array_b) ==
    IF array_b # NoArray
    THEN LET scale2 == QDiv(NormSquared(array_b), NormSquared(array_a))
         IN  [array |-> TimesRoot(array_a, scale2), scaling2 |-> scale2]
    ELSE LET scale2 == QDiv(Q(1, 1), NormSquared(array_a))
         IN  [array |-> TimesRoot(array_a, scale2), scaling2 |-> scale2]

(* --------------------- the calls of utils.py tried --------------------- *)

\* the integer arrays of n rows and m columns with entries 0 and 1
Arrays01(n, m) == [1..n -> [1..m -> {0, 1}]]

ArrayChoices == UNION {Arrays01(n, m) : n \in 1..MaxPadDim, m \in 1..MaxPadDim}

\* the arrays an array is padded against, translated to and scaled to: one of
\* every shape, with entries that are all different
ReferenceChoices == {Labelled(n, m) : n \in 1..MaxPadDim, m \in 1..MaxPadDim}

\* zero_padding(x1, x2, row, column, square) on arrays of every shape, and on
\* the 2 x 2 array of zeros against an array of 4 rows and 6 columns
InitZeroPadding ==
    /\ fn = "zero_padding"
    /\ \/ \E x1 \in ArrayChoices, x2 \in ReferenceChoices, r, c, sq \in BOOLEAN :
            args = [x1 |-> x1, x2 |-> x2, row |-> r, column |-> c, square |-> sq]
       \/ args = [x1 |-> Zeros(2, 2), x2 |-> Labelled(4, 6),
                  row |-> TRUE, column |-> TRUE, square |-> FALSE]

\* translate_array(array_a) and translate_array(array_a, array_b), array_b with
\* as many columns as array_a
InitTranslateArray ==
    /\ fn = "translate_array"
    /\ \E a \in ArrayChoices :
         \E b \in {NoArray} \cup {r \in ReferenceChoices : Cols(r) = Cols(a)} :
            args = [array_a |-> a, array_b |-> b]

\* scale_array(array_a) and scale_array(array_a, array_b)
InitScaleArray ==
    /\ fn = "scale_array"
    /\ \E a \in ArrayChoices :
         \E b \in {NoArray, Zeros(1, 1)} \cup ReferenceChoices :
            args = [array_a |-> a, array_b |-> b]

InitUtils ==
    /\ pc = "call"
    /\ res = NoArray
    /\ KoptUnused
    /\ InitZeroPadding \/ InitTranslateArray \/ InitScaleArray

\* zero_padding, lines 54-126
ZeroPaddingCall ==
    /\ fn = "zero_padding" /\ pc = "call"
    /\ IF ZeroPaddingRaises(args.x1, args.x2, args.row, args.column, args.square)
       THEN pc' = "raised" /\ UNCHANGED res
       ELSE LET r == ZeroPadding(args.x1, args.x2, args.row, args.column, args.square)
            IN  /\ res' = [x1 |-> r[1], x2 |-> r[2]]
                /\ pc' = "returned"
    /\ UNCHANGED << fn, args, koptvars >>

\* the first array zero_padding returned is handed to hide_zero_padding;
\* `padded` keeps the array that was padded
UnpadCall ==
    /\ fn = "zero_padding" /\ pc = "returned"
    /\ fn' = "hide_zero_padding"
    /\ pc' = "call"
    /\ args' = [array |-> res.x1, padded |-> args.x1]
    /\ UNCHANGED << res, koptvars >>

\* hide_zero_padding, lines 356-366
HideZeroPaddingCall ==
    /\ fn = "hide_zero_padding" /\ pc = "call"
    /\ res' = [array |-> HideZeroPadding(args.array)]
    /\ pc' = "returned"
    /\ UNCHANGED << fn, args, koptvars >>

\* translate_array, lines 149-152
TranslateArrayCall ==
    /\ fn = "translate_array" /\ pc = "call"
    /\ res' = TranslateArray(AsFloat(args.array_a),
                             IF args.array_b = NoArray THEN NoArray
                             ELSE AsFloat(args.array_b))
    /\ pc' = "returned"
    /\ UNCHANGED << fn, args, koptvars >>

\* scale_array, lines 189-210
ScaleArrayCall ==
    /\ fn = "scale_array" /\ pc = "call"
    /\ res' = ScaleArray(AsFloat(args.array_a),
                         IF args.array_b = NoArray THEN NoArray
                         ELSE AsFloat(args.array_b))
    /\ pc' = "returned"
    /\ UNCHANGED << fn, args, koptvars >>

NextUtils ==
    \/ ZeroPaddingCall
    \/ UnpadCall
    \/ HideZeroPaddingCall
    \/ TranslateArrayCall
    \/ ScaleArrayCall

SpecUtils == InitUtils /\ [][NextUtils]_vars

(* ----------------------- properties of utils.py ------------------------ *)

\* the array `out` has the entries of `inp` in its upper-left block and zeros
\* everywhere else
PaddedFrom(out, inp) ==
    /\ Rows(out) >= Rows(inp) /\ Cols(out) >= Cols(inp)
    /\ \A i \in 1..Rows(out) :
          /\ Len(out[i]) = Cols(out)
          /\ \A j \in 1..Cols(out) :
                out[i][j] = IF i <= Rows(inp) /\ j <= Cols(inp) THEN inp[i][j] ELSE 0

\* C13: the arrays zero_padding returns match on the requested axes: the row
\* counts with row, the column counts with column, both with row and column,
\* and with square both are square of side the largest of the four input
\* dimensions; each keeps its input in the upper-left block and is zero elsewhere
C13_ZeroPaddingShapes ==
    (fn = "zero_padding" /\ pc = "returned")
        => /\ args.row => Rows(res.x1) = Rows(res.x2)
           /\ args.column => Cols(res.x1) = Cols(res.x2)
           /\ args.square =>
                 LET d == Max2(Max2(Rows(args.x1), Cols(args.x1)),
                               Max2(Rows(args.x2), Cols(args.x2)))
                 IN  Shape(res.x1) = << d, d >> /\ Shape(res.x2) = << d, d >>
           /\ PaddedFrom(res.x1, args.x1)
           /\ PaddedFrom(res.x2, args.x2)

C13_Witness ==
    /\ fn = "zero_padding" /\ pc = "returned"
    /\ args.square /\ ~args.row /\ ~args.column
    /\ Rows(res.x1) > Rows(args.x1) /\ Cols(res.x1) = Cols(args.x1)
    /\ Cols(res.x2) > Cols(args.x2) /\ Rows(res.x2) = Rows(args.x2)
    /\ \E i \in 1..Rows(args.x1) : \E j \in 1..Cols(args.x1) : args.x1[i][j] # 0

\* a row or column of integers is near-zero when all its entries are 0
NearZero(v) == \A t \in 1..Len(v) : v[t] = 0

LastColumn(array) == [i \in 1..Rows(array) |-> array[i][Cols(array)]]

\* the rows dropped from the last one inward, up to the first that is not
\* near-zero
RECURSIVE TrimRows(_)
TrimRows(array) ==
    IF Rows(array) = 0 THEN array
    ELSE IF NearZero(array[Rows(array)])
         THEN TrimRows(SubSeq(array, 1, Rows(array) - 1))
         ELSE array

\* the columns dropped from the last one inward, up to the first that is not
\* near-zero
RECURSIVE TrimColumns(_)
TrimColumns(array) ==
    IF Cols(array) = 0 THEN array
    ELSE IF NearZero(LastColumn(array))
         THEN TrimColumns(DeleteColumn(array, Cols(array)))
         ELSE array

\* C14: hide_zero_padding removes only trailing near-zero rows and columns: it
\* returns its array less the near-zero rows at the end and the near-zero
\* columns at the end, and keeps a near-zero row or column that comes before
\* one that is not near-zero
C14_OnlyTrailingRemoved ==
    (fn = "hide_zero_padding" /\ pc = "returned")
        => res.array = TrimColumns(TrimRows(args.array))

\* C15: an array whose last row and last column are not near-zero comes back
\* exactly from zero_padding (against any array, any flags) followed by
\* hide_zero_padding
C15_PaddingRoundTrip ==
    (/\ fn = "hide_zero_padding" /\ pc = "returned"
     /\ ~NearZero(args.padded[Rows(args.padded)])
     /\ ~NearZero(LastColumn(args.padded)))
        => res.array = args.padded

\* C16: for the 2 x 2 array of zeros padded to 4 rows and 6 columns of zeros,
\* hide_zero_padding does not fail and returns an array of 0 rows
C16_AllZeroGivesNoRows ==
    (fn = "hide_zero_padding" /\ args.array = Zeros(4, 6))
        => /\ pc \in {"call", "returned"}
           /\ pc = "returned" => Rows(res.array) = 0

C16_Witness ==
    /\ fn = "hide_zero_padding" /\ pc = "returned"
    /\ args.padded = Zeros(2, 2) /\ args.array = Zeros(4, 6)
    /\ res.array = << >>

\* C17: scale_array never returns when the Frobenius norm of the array to scale
\* is 0, with and without a reference array_b
C17_ZeroNormRejected ==
    (fn = "scale_array" /\ NormSquared(AsFloat(args.array_a)) = Q(0, 1))
        => pc # "returned"

\* C18: the array translate_array(a) returns has centroid zero, the array
\* translate_array(a, b) returns has the centroid of b, every row of the array
\* returned is the row of a plus the vector t returned, and the call leaves a
\* and b as they were
C18_TranslatedCentroid ==
    /\ [][fn = "translate_array" => args' = args]_vars
    /\ []((fn = "translate_array" /\ pc = "returned")
            => /\ Shape(res.array) = Shape(args.array_a)
               /\ ComputeCentroid(res.array) =
                     IF args.array_b = NoArray
                     THEN [j \in 1..Cols(args.array_a) |-> Q(0, 1)]
                     ELSE ComputeCentroid(AsFloat(args.array_b))
               /\ \A i \in 1..Rows(res.array) : \A j \in 1..Cols(res.array) :
                     res.array[i][j] = QAdd(Q(args.array_a[i][j], 1), res.t[j]))

C18_Witness ==
    /\ fn = "translate_array" /\ pc = "returned"
    /\ args.array_b # NoArray
    /\ Rows(args.array_b) # Rows(args.array_a)
    /\ \E j \in 1..Len(res.t) : res.t[j].d > 1
    /\ ComputeCentroid(res.array) = ComputeCentroid(AsFloat(args.array_b))

(* ==================== base.py: Procrustes.__init__ ===================== *)

\* largest number of rows / columns of the arrays given to Procrustes
MaxProcDim == 2

\* the keyword parameters of zero_padding (utils.py line 9), and the keyword
\* the constructor passes (base.py line 54)
\* a call with a keyword the function does not have raises TypeError
PadCallRaises == ~({"mode"} \subseteq {"row", "column", "square"})

\* lines 43-45: translate_array(array) when translate is set
TranslateStep(array, translate) ==
    IF translate THEN TranslateArray(array, NoArray).array ELSE array

\* lines 47-49: scale_array(array) when scale is set; an array that is not
\* scaled is the array times 1
ScaleStep(array, scale) ==
    IF scale THEN ScaleArray(array, NoArray).array ELSE TimesRoot(array, Q(1, 1))

InitProcrustes ==
    /\ fn = "Procrustes"
    /\ pc = "call"
    /\ res = NoArray
    /\ KoptUnused
    /\ \E a \in UNION {Arrays01(n, m) : n \in 1..MaxProcDim, m \in 1..MaxProcDim} :
         \E b \in {Labelled(n, m) : n \in 1..MaxProcDim, m \in 1..MaxProcDim} :
            \E t, s \in BOOLEAN :
               args = [array_a |-> a, array_b |-> b, translate |-> t, scale |-> s]

\* lines 34-41: the arguments are 2D arrays, so neither check raises; both
\* arrays go through hide_zero_padding
ProcrustesUnpad ==
    /\ fn = "Procrustes" /\ pc = "call"
    /\ res' = [array_a |-> AsFloat(HideZeroPadding(args.array_a)),
               array_b |-> AsFloat(HideZeroPadding(args.array_b))]
    /\ pc' = "unpadded"
    /\ UNCHANGED << fn, args, koptvars >>

\* lines 43-45
ProcrustesTranslate ==
    /\ fn = "Procrustes" /\ pc = "unpadded"
    /\ res' = [array_a |-> TranslateStep(res.array_a, args.translate),
               array_b |-> TranslateStep(res.array_b, args.translate)]
    /\ pc' = "translated"
    /\ UNCHANGED << fn, args, koptvars >>

\* lines 47-49
ProcrustesScale ==
    /\ fn = "Procrustes" /\ pc = "translated"
    /\ res' = [array_a |-> ScaleStep(res.array_a, args.scale),
               array_b |-> ScaleStep(res.array_b, args.scale)]
    /\ pc' = "scaled"
    /\ UNCHANGED << fn, args, koptvars >>

\* lines 53-57: with equal numbers of rows the arrays are stored; otherwise
\* zero_padding is called with mode='row', and the call raises
ProcrustesPad ==
    /\ fn = "Procrustes" /\ pc = "scaled"
    /\ IF Rows(res.array_a.m) # Rows(res.array_b.m)
       THEN PadCallRaises /\ pc' = "raised"
       ELSE pc' = "stored"
    /\ UNCHANGED << res, fn, args, koptvars >>

NextProcrustes ==
    \/ ProcrustesUnpad
    \/ ProcrustesTranslate
    \/ ProcrustesScale
    \/ ProcrustesPad

SpecProcrustes == InitProcrustes /\ [][NextProcrustes]_vars


(* ------------------------ properties of base.py ------------------------ *)

\* an array after hide_zero_padding, translation and scaling, in that order
Preprocessed(array, translate, scale) ==
    ScaleStep(TranslateStep(AsFloat(HideZeroPadding(array)), translate), scale)

\* the array x brought to n rows by rows of zeros below it
WithZeroRows(x, n) ==
    [x EXCEPT !.m = x.m \o [i \in 1..(n - Rows(x.m)) |->
                               [j \in 1..Cols(x.m) |-> Q(0, 1)]]]

\* C19: the constructor removes the zero padding, then translates, then
\* scales, then pads: every construction ends with array_a and array_b stored
\* as the preprocessed arrays with rows of exact zeros below the shorter one
C19_PaddingIsLast ==
    (fn = "Procrustes" /\ pc \in {"stored", "raised"})
        => LET a == Preprocessed(args.array_a, args.translate, args.scale)
               b == Preprocessed(args.array_b, args.translate, args.scale)
               n == Max2(Rows(a.m), Rows(b.m))
           IN  /\ pc = "stored"
               /\ res.array_a = WithZeroRows(a, n)
               /\ res.array_b = WithZeroRows(b, n)

\* C20: for every pair of 2D arrays the constructor succeeds, and the arrays it
\* stores have the same number of rows
C20_ConstructionSucceeds ==
    fn = "Procrustes"
        => /\ pc # "raised"
           /\ pc = "stored" => Rows(res.array_a.m) = Rows(res.array_b.m)

(* ------------------ the order of the candidates of kopt ---------------- *)

\* the first tuple of a sequence of index tuples that is not sorted, << >>
\* when all are: the next one the for loop builds a candidate from
RECURSIVE FirstUnsorted(_)
FirstUnsorted(perms) ==
    IF perms = << >> THEN << >>
    ELSE IF Head(perms) # Sorted(Head(perms)) THEN Head(perms)
    ELSE FirstUnsorted(Tail(perms))

\* C25: in kopt_heuristic_single, right after a candidate is accepted the scan
\* restarts: the next candidate evaluated is built from the first non-identity
\* index permutation of the enumeration, not from the one that follows the
\* permutation just accepted
C25_ScanRestartsAfterAccept ==
    (fn = "single" /\ pc = "for" /\ nacc > 0 /\ accfun = nfun)
        => \/ FirstUnsorted(iter) = << >>
           \/ FirstUnsorted(iter) =
                 FirstUnsorted(ItPermutations(Arange(Rows(p0)), KValue(args.k)))

\* C26: every candidate pair kopt_heuristic_double evaluates differs from the
\* current pair (p1, p2) in exactly one of the two matrices
C26_DoubleMovesOneSided ==
    [][(fn = "double" /\ pc = "for2" /\ nfun' = nfun + 1)
          => (cand'[1] # p1) # (cand'[2] # p2)]_vars

\* C27: a full pass of kopt_heuristic_single of order k over an unchanged
\* matrix tries exactly the non-identity reorderings of every k columns; these
\* include every reordering of j columns for 2 <= j <= k, so the matrix the
\* pass ends with is a local optimum for every such j as well
C27_PassCoversSmallerOrders ==
    (fn = "single" /\ pc \in {"while", "returned"} /\ ~search)
        => /\ tried = ColumnReorderings(p0, KValue(args.k))
           /\ \A j \in 2..KValue(args.k) :
                 /\ ColumnReorderings(p0, j) \subseteq tried
                 /\ \A R \in ColumnReorderings(p0, j) : Fun(args.fun, R) >= error

C27_Witness ==
    /\ fn = "single" /\ pc = "returned" /\ ~search
    /\ KValue(args.k) = 3 /\ nacc >= 1
    /\ ColumnReorderings(p0, 2) # {}
    /\ ColumnReorderings(p0, 2) # tried
    /\ ~WithinTol(error)

(* ------------------ termination of kopt_heuristic_single --------------- *)

\* largest side of p0 in the calls followed to their end
MaxDimLive == 2

\* the calls of InitSingle with p0 of side at most MaxDimLive
InitTermination ==
    /\ InitSingle
    /\ Rows(args.p0) <= MaxDimLive

\* the code runs on as long as it has a step to take
SpecTermination == InitTermination /\ [][NextColumns]_vars /\ WF_vars(NextColumns)

\* C28: with a permutation matrix and a valid k, kopt_heuristic_single
\* eventually returns; a pass other than the first starts only after a pass
\* that accepted a candidate, and every accepted error is strictly lower than
\* the one before
C28_SingleTerminates ==
    /\ SingleArgsValid ~> (pc = "returned")
    /\ [][(pc = "while" /\ pc' = "for" /\ nfun > 1) => (search /\ p0 \in tried)]_vars
    /\ [][nacc' # nacc => error' < error]_vars

C28_Witness ==
    /\ SingleArgsValid /\ pc = "returned"
    /\ nacc >= 1 /\ nfun = accfun + Cardinality(tried)
    /\ tried # {} /\ ~WithinTol(error)

(* ================ base.py: the errors of a Procrustes object =========== *)

\* largest number of rows / columns of the arrays an error is computed for
MaxErrDim == 2

\* np.trace(M)
Trace(M) == SumTo([i \in 1..Rows(M) |-> M[i][i]], Rows(M))

\* a residual formed with the wrong sign
ResidualPlus(x, b) == [i \in 1..Rows(x) |-> [j \in 1..Cols(x) |-> x[i][j] + b[i][j]]]

\* au - self.array_b, u1au2 - self.array_b
Residual(x, b) == [i \in 1..Rows(x) |-> [j \in 1..Cols(x) |-> x[i][j] - b[i][j]]]

\* lines 77-79
SingleSidedError(array_a, array_b, array_u) ==
    LET au == Dot(array_a, array_u)
    IN  Trace(Dot(Transpose(Residual(au, array_b)), Residual(au, array_b)))

\* lines 101-103
DoubleSidedError(array_a, array_b, array_u1, array_u2) ==
    LET u1au2 == Dot(Dot(Transpose(array_u1), array_a), array_u2)
    IN  Trace(Dot(Transpose(Residual(u1au2, array_b)), Residual(u1au2, array_b)))

\* the transformations tried, of side m: the permutation matrices, the zero
\* matrix and minus the identity
UChoices(m) ==
    PermutationMatrices(m)
        \cup {Zeros(m, m), [i \in 1..m |-> [j \in 1..m |-> IF i = j THEN 0 - 1 ELSE 0]]}

\* the object holds array_a and array_b of one shape; single_sided_error(u) or
\* double_sided_error(u1, u2) is called on it
InitErrors ==
    /\ pc = "call"
    /\ res = NoArray
    /\ KoptUnused
    /\ \E n, m \in 1..MaxErrDim :
         \E a \in Arrays01(n, m), u1 \in UChoices(n), u2 \in UChoices(m) :
            \/ /\ fn = "single_sided_error"
               /\ \E b \in {Dot(a, u2), a, Labelled(n, m)} :
                     args = [array_a |-> a, array_b |-> b, array_u |-> u2]
            \/ /\ fn = "double_sided_error"
               /\ \E b \in {Dot(Dot(Transpose(u1), a), u2), a, Labelled(n, m)} :
                     args = [array_a |-> a, array_b |-> b,
                             array_u1 |-> u1, array_u2 |-> u2]

SingleSidedErrorCall ==
    /\ fn = "single_sided_error" /\ pc = "call"
    /\ res' = [error |-> SingleSidedError(args.array_a, args.array_b, args.array_u)]
    /\ pc' = "returned"
    /\ UNCHANGED << fn, args, koptvars >>

DoubleSidedErrorCall ==
    /\ fn = "double_sided_error" /\ pc = "call"
    /\ res' = [error |-> DoubleSidedError(args.array_a, args.array_b,
                                          args.array_u1, args.array_u2)]
    /\ pc' = "returned"
    /\ UNCHANGED << fn, args, koptvars >>

NextErrors ==
    \/ SingleSidedErrorCall
    \/ DoubleSidedErrorCall

SpecErrors == InitErrors /\ [][NextErrors]_vars

\* the transformed array_a of the call
Transformed ==
    IF fn = "single_sided_error" THEN Dot(args.array_a, args.array_u)
    ELSE Dot(Dot(Transpose(args.array_u1), args.array_a), args.array_u2)

\* C21: single_sided_error(U) and double_sided_error(U1, U2) are the sum of the
\* squared entries of the residual A U - B, respectively U1^T A U2 - B: never
\* negative, and 0 exactly when the transformed array equals B
C21_ErrorIsSquaredResidual ==
    (fn \in {"single_sided_error", "double_sided_error"} /\ pc = "returned")
        => /\ res.error = SqNorm(Transformed, args.array_b)
           /\ res.error >= 0
           /\ res.error = 0 <=> Transformed = args.array_b

C21_Witness ==
    /\ fn = "double_sided_error" /\ pc = "returned"
    /\ res.error = 0
    /\ args.array_u1 # Identity(Rows(args.array_u1))
    /\ args.array_b # args.array_a
    /\ \E i \in 1..Rows(args.array_b) : \E j \in 1..Cols(args.array_b) :
          args.array_b[i][j] < 0

(* ===== procrustes_two_sided_orthogonal_single_transformation.py ======= *)
(* The file does not compile.  Line 119 ends in `or` and its condition goes
   on at line 120 with neither a backslash nor an enclosing parenthesis, and
   the return of lines 210-211 is wrapped the same way.  Python stops with
   SyntaxError at line 119 when the module is imported, so a call of the
   constructor or of calculate never runs a line of the body. *)

\* largest number of rows / columns of the arrays given to the constructor
MaxTwoDim == 2

\* the constructor is called with 2D arrays; translate and scale are both
\* left out or both set
InitTwoSided ==
    /\ fn = "TwoSidedOrthogonalSingleTransformationProcrustes"
    /\ pc = "call"
    /\ res = NoArray
    /\ KoptUnused
    /\ \E a \in UNION {Arrays01(n, m) : n \in 1..MaxTwoDim, m \in 1..MaxTwoDim} :
         \E b \in UNION {{Identity(n), Labelled(n, n)} : n \in 1..MaxTwoDim} :
            \E flag \in BOOLEAN, swap \in BOOLEAN :
               args = [array_a |-> IF swap THEN b ELSE a,
                       array_b |-> IF swap THEN a ELSE b,
                       translate |-> flag, scale |-> flag]

\* lines 25-29, 119: the import that the call needs compiles the file and
\* stops at line 119
TwoSidedImport ==
    /\ fn \in {"TwoSidedOrthogonalSingleTransformationProcrustes", "calculate"}
    /\ pc = "call"
    /\ pc' = "raised"
    /\ res' = [exception |-> "SyntaxError"]
    /\ UNCHANGED << fn, args, koptvars >>

NextTwoSided == TwoSidedImport

SpecTwoSided == InitTwoSided /\ [][NextTwoSided]_vars

\* C22: constructing the two-sided single-transformation solver raises
\* ValueError whenever array_a or array_b is square but not symmetric
C22_NonSymmetricRejected ==
    (/\ fn = "TwoSidedOrthogonalSingleTransformationProcrustes"
     /\ pc \in {"raised", "constructed"}
     /\ \E x \in {args.array_a, args.array_b} :
           /\ Rows(x) = Cols(x)
           /\ \E i \in 1..Rows(x) : \E j \in 1..Cols(x) : x[i][j] # x[j][i])
        => pc = "raised" /\ res.exception = "ValueError"


(* ------------------------------- generic ------------------------------ *)
(* generic.py lines 30-122.  setup_input_arrays, compute_error and
   ProcrustesResult are imported from procrustes.utils (line 26) and are not
   functions of utils.py; they are modelled from the specification's
   sections 4.1, 4.3 and 4.4.  pinv is scipy's: the Moore-Penrose inverse,
   computed exactly. *)

MaxGenDim == 2

\* a product of arrays of floats
QDot(X, Y) ==
    [i \in 1..Rows(X) |->
        [j \in 1..Cols(Y) |->
            QSum([t \in 1..Rows(Y) |-> QMul(X[i][t], Y[t][j])])]]

\* compute_error(a, b, t): the squared Frobenius norm of a.t - b
ComputeErrorFloat(a_, b_, t) ==
    LET at == QDot(AsFloat(a_), t)
    IN  QSum([i \in 1..Rows(b_) |->
                 QSum([j \in 1..Cols(b_) |->
                          LET r == QSub(at[i][j], Q(b_[i][j], 1))
                          IN  QMul(r, r)])])

\* setup_input_arrays with unpad_col, unpad_row, translate, scale False and
\* weight None (the defaults of lines 33-39): the arrays are padded to one
\* shape when pad is set; without pad, arrays with different numbers of rows
\* are refused (GenericSetup)
SetupInputArrays(a, b, pad) == IF pad THEN ZeroPadding(a, b, TRUE, TRUE, FALSE) ELSE << a, b >>

\* the coefficients c_j of the characteristic polynomial of the square integer
\* array B and the arrays M_j = B^(j-1) + c_1 B^(j-2) + ... + c_(j-1) I
RECURSIVE CharM(_, _)
CharM(B, j) ==
    IF j = 1 THEN Identity(Rows(B))
    ELSE LET P == Dot(B, CharM(B, j - 1))
             c == (0 - Trace(P)) \div (j - 1)
         IN  [i \in 1..Rows(B) |->
                [k \in 1..Rows(B) |-> P[i][k] + (IF i = k THEN c ELSE 0)]]

CharC(B, j) == (0 - Trace(Dot(B, CharM(B, j)))) \div j

\* the rank of X: the last non-zero coefficient for X.X^T
RankOf(X) ==
    LET B == Dot(X, Transpose(X))
        nz == {j \in 1..Rows(B) : CharC(B, j) # 0}
    IN  IF nz = {} THEN 0 ELSE CHOOSE j \in nz : \A i \in nz : i <= j

\* a pseudo-inverse that is the transpose
PinvIsTranspose(X) == AsFloat(Transpose(X))

\* lines 114, 116: pinv(X), the Moore-Penrose inverse of an integer array:
\* X^+ = -(1 / c_r) X^T M_r for the rank r of X, and zeros when r = 0
Pinv(X) ==
    LET B == Dot(X, Transpose(X))
        r == RankOf(X)
        N == Dot(Transpose(X), CharM(B, r))
    IN  IF r = 0 THEN AsFloat(Zeros(Cols(X), Rows(X)))
        ELSE [i \in 1..Cols(X) |-> [j \in 1..Rows(X) |-> Q(0 - N[i][j], CharC(B, r))]]

\* a test of the driver that every name passes
DriverKnownAny(driver) == TRUE

\* lines 113-118: the two names the chain of ifs knows
DriverKnown(driver) == driver \in {"gesvd", "gesdd"}

InitGeneric ==
    /\ fn = "generic"
    /\ pc = "call"
    /\ res = NoArray
    /\ KoptUnused
    /\ \E a \in UNION {Arrays01(n, m) \cup {Labelled(n, m)} :
                        n \in 1..MaxGenDim, m \in 1..MaxGenDim} :
         \E b \in {a, Transpose(a), Labelled(MaxGenDim, 1), Labelled(Rows(a), Cols(a))} :
            \E pad \in BOOLEAN, driver \in {"gesvd", "gesdd", "gelsd"} :
               args = [a |-> a, b |-> b, pad |-> pad, lapack_driver |-> driver]

\* lines 109-111: new_a, new_b = setup_input_arrays(...)
GenericSetup ==
    /\ fn = "generic" /\ pc = "call"
    /\ IF ~args.pad /\ Rows(args.a) # Rows(args.b)
       THEN pc' = "raised" /\ res' = [exception |-> "ValueError"]
       ELSE /\ pc' = "setup"
            /\ res' = [new_a |-> SetupInputArrays(args.a, args.b, args.pad)[1],
                       new_b |-> SetupInputArrays(args.a, args.b, args.pad)[2]]
    /\ UNCHANGED << fn, args, koptvars >>

\* lines 113-118: a_inv by the driver, or ValueError for any other name
GenericPinv ==
    /\ fn = "generic" /\ pc = "setup"
    /\ IF ~DriverKnown(args.lapack_driver)
       THEN pc' = "raised" /\ res' = [exception |-> "ValueError"]
       ELSE /\ pc' = "inverted"
            /\ res' = [new_a |-> res.new_a, new_b |-> res.new_b,
                       a_inv |-> Pinv(Dot(Transpose(res.new_a), res.new_a))]
    /\ UNCHANGED << fn, args, koptvars >>

\* lines 119-122: array_x, e_opt and the ProcrustesResult
GenericSolve ==
    /\ fn = "generic" /\ pc = "inverted"
    /\ \E array_x \in {QDot(QDot(res.a_inv, AsFloat(Transpose(res.new_a))),
                            AsFloat(res.new_b))} :
          res' = [error |-> ComputeErrorFloat(res.new_a, res.new_b, array_x),
                  new_a |-> res.new_a, new_b |-> res.new_b,
                  t |-> array_x, s |-> NoArray]
    /\ pc' = "returned"
    /\ UNCHANGED << fn, args, koptvars >>

NextGeneric ==
    \/ GenericSetup
    \/ GenericPinv
    \/ GenericSolve

SpecGeneric == InitGeneric /\ [][NextGeneric]_vars

\* C23: generic ends in an error, with no result, whenever lapack_driver is
\* neither "gesvd" nor "gesdd"; with one of the two and arrays that
\* setup_input_arrays accepts it returns a result with the fields error, new_a,
\* new_b, t and s, where new_a and new_b are the prepared arrays, t has one row
\* per column of new_a and one column per column of new_b, and s is None.
C23_DriverChecked ==
    (fn = "generic" /\ pc \in {"raised", "returned"}) =>
        /\ args.lapack_driver \notin {"gesvd", "gesdd"} =>
              pc = "raised" /\ DOMAIN res = {"exception"}
        /\ (/\ args.lapack_driver \in {"gesvd", "gesdd"}
            /\ (args.pad \/ Rows(args.a) = Rows(args.b))) =>
              /\ pc = "returned"
              /\ DOMAIN res = {"error", "new_a", "new_b", "t", "s"}
              /\ res.s = NoArray
              /\ << res.new_a, res.new_b >>
                    = (IF args.pad THEN ZeroPadding(args.a, args.b, TRUE, TRUE, FALSE)
                       ELSE << args.a, args.b >>)
              /\ Rows(res.t) = Cols(res.new_a) /\ Cols(res.t) = Cols(res.new_b)
              /\ res.error.d > 0 /\ res.error.n >= 0

C23_Witness ==
    /\ fn = "generic" /\ pc = "raised"
    /\ args.lapack_driver = "gelsd"
    /\ args.pad /\ Shape(args.a) # Shape(args.b)

\* C24: for a square invertible M, generic(M, M) returns the identity as the
\* transformation and 0 as the error, the transformation being
\* pinv(M^T M) . M^T . M.
C24_IdentityRecovered ==
    (fn = "generic" /\ pc = "returned" /\ args.a = args.b
        /\ Rows(args.a) = Cols(args.a) /\ RankOf(args.a) = Rows(args.a)) =>
        /\ res.t = AsFloat(Identity(Rows(args.a)))
        /\ res.error = Q(0, 1)
        /\ res.t = QDot(QDot(Pinv(Dot(Transpose(args.a), args.a)),
                             AsFloat(Transpose(args.a))), AsFloat(args.a))

C24_Witness ==
    /\ fn = "generic" /\ pc = "returned"
    /\ args.a = Labelled(2, 2) /\ args.b = args.a
    /\ res.t = AsFloat(Identity(2)) /\ res.error = Q(0, 1)


(* ---- TwoSidedOrthogonalSingleTransformationProcrustes.calculate ------ *)
(* procrustes_two_sided_orthogonal_single_transformation.py lines 124-224:
   a method of the class of a file that does not compile *)

MaxCalcDim == 2

\* the arrays with one non-zero entry per row and column, of distinct sizes
MonomialArrays(n) ==
    {[i \in 1..n |-> [j \in 1..n |-> P[i][j] * d[i]]] :
        P \in PermutationMatrices(n),
        d \in {e \in [1..n -> {0 - 2, 0 - 1, 1, 2, 400}] :
                  \A i, j \in 1..n : i # j => Abs(e[i]) # Abs(e[j])}}

\* calculate(return_u_approx, return_u_best) on the object of two arrays of
\* one side
InitCalculate ==
    /\ fn = "calculate"
    /\ pc = "call"
    /\ res = NoArray
    /\ KoptUnused
    /\ \E n \in 1..MaxCalcDim :
         \E a \in MonomialArrays(n), b \in MonomialArrays(n) :
            \E approx \in BOOLEAN, best \in BOOLEAN :
               args = [array_a |-> a, array_b |-> b,
                       return_u_approx |-> approx, return_u_best |-> best]

SpecCalculate == InitCalculate /\ [][NextTwoSided]_vars

\* C29: calculate(return_u_best=True) ends by returning, whatever the size of
\* the trial errors: it returns one of the 2^n trials (the first below tol, or
\* else one of least error) as u_best, with that trial's error as error_best.
C29_BestTrialReturned ==
    (fn = "calculate" /\ pc \in {"raised", "returned"}
        /\ args.return_u_best /\ ~args.return_u_approx) =>
        /\ pc = "returned"
        /\ Shape(res.u_best) = Shape(args.array_a)
        /\ res.error_best
              = DoubleSidedError(args.array_a, args.array_b, res.u_best, res.u_best)

\* C30: with return_u_approx and return_u_best both set, calculate returns,
\* and what it returns as u_best, array_transformed_best and error_best
\* belongs to one transformation: array_transformed_best is
\* u_best^T . array_a . u_best, error_best is double_sided_error(u_best, u_best),
\* and error_best is not above the approximate error.
C30_BestDescribesOneTransformation ==
    (fn = "calculate" /\ pc \in {"raised", "returned"}
        /\ args.return_u_approx /\ args.return_u_best) =>
        /\ pc = "returned"
        /\ res.array_transformed_best
              = Dot(Dot(Transpose(res.u_best), args.array_a), res.u_best)
        /\ res.error_best
              = DoubleSidedError(args.array_a, args.array_b, res.u_best, res.u_best)
        /\ res.error_best <= res.error_approx

=============================================================================
